---- MODULE Spec2Model ----
(***************************************************************************)
(* Package initialisation of lsst.meas.extensions.photometryKron           *)
(* (python/lsst/meas/extensions/photometryKron/__init__.py).               *)
(*                                                                         *)
(* The module body is five statements run in order at import time:         *)
(*   23  from .kronLib import *                                            *)
(*   24  from .version import *                                            *)
(*   26  import lsst.meas.base                                             *)
(*   27  lsst.meas.base.wrapSimpleAlgorithm(KronFluxAlgorithm, name=...,   *)
(*   28      Control=KronFluxControl, executionOrder=2.0,                  *)
(*           shouldApCorr=True)                                            *)
(*   29  del lsst                                                          *)
(* The state is the module's namespace, the host framework's registry, the *)
(* position in the body and the exception (if any) that left the body.     *)
(* What the body finds when it runs (the two companion modules, the host   *)
(* framework, the host's handling of a name it already holds) is the       *)
(* environment of the process, chosen in Init.                             *)
(***************************************************************************)
EXTENDS Naturals, Sequences, FiniteSets

VARIABLES
    pc,         \* position in the module body, or its outcome
    namespace,  \* the module's globals: name -> value bound to it
    registry,   \* the host framework's registry: a sequence of entries
    raised,     \* the exception that left the module body
    loaded,     \* the module is cached by the interpreter (sys.modules)
    trace,      \* statements of the body executed in the current execution
    before,     \* the registry as it was when the current execution began
    nImports,   \* number of import / reload requests made so far
    env         \* what the process offers to the module body

vars == <<pc, namespace, registry, raised, loaded, trace, before, nImports, env>>

----------------------------------------------------------------------------
(* Bounds of the model *)

\* number of import / reload requests in one process
MaxImports == 3
\* number of entries other plugins put into the registry before the import
MaxOther == 2

----------------------------------------------------------------------------
(* Constants of the source *)

\* name="ext_photometryKron_KronFlux"
KronName == "ext_photometryKron_KronFlux"
\* executionOrder=2.0, kept in tenths (2.0 = 20 tenths)
ExecutionOrderTenths == 20
\* shouldApCorr=True
ShouldApCorr == TRUE

\* the names the module body reads or binds
Names == {"KronFluxAlgorithm", "KronFluxControl", "lsst", "__version__"}
Unbound == "<unbound>"
\* the value `import lsst.meas.base` binds to the name lsst
FrameworkPkg == "<package lsst>"

NoError == "<none>"
KronLibImportError == "ImportError: kronLib"
VersionImportError == "ImportError: version"
FrameworkImportError == "ImportError: lsst.meas.base"
AlgorithmNameError == "NameError: KronFluxAlgorithm"
ControlNameError == "NameError: KronFluxControl"
DuplicateError == "host: duplicate name"
ControlError == "host: malformed control"

\* the statements of the module body, in source order
BodyOrder == <<"kronLib", "version", "framework", "register", "cleanup">>
BodySteps == {BodyOrder[i] : i \in DOMAIN BodyOrder}

----------------------------------------------------------------------------
(* Helpers *)

Range(s) == {s[i] : i \in DOMAIN s}
HasName(reg, n) == \E i \in DOMAIN reg : reg[i].name = n
NameCount(reg, n) == Cardinality({i \in DOMAIN reg : reg[i].name = n})
IsKron(e) == e.name = KronName
IsOther(e) == e.name # KronName
EmptyNamespace == [n \in Names |-> Unbound]

\* from M import * : every exported name is bound to M's object of that name
StarImport(ns, mod, exports) ==
    [n \in Names |-> IF n \in exports THEN mod \o "." \o n ELSE ns[n]]

----------------------------------------------------------------------------
(* The host framework (lsst.meas.base), owner of the registry *)

\* the errors a registration of entry e into reg is rejected with
HostErrors(reg, e) ==
    (IF env.controlMalformed THEN {ControlError} ELSE {})
    \cup (IF HasName(reg, e.name) /\ env.duplicatePolicy = "raise"
          THEN {DuplicateError} ELSE {})

\* the registry after an accepted registration: a name already held is kept
\* as it is, a new name is recorded
HostRegister(reg, e) ==
    IF HasName(reg, e.name) THEN reg ELSE Append(reg, e)

----------------------------------------------------------------------------
(* What each statement of the body can raise in the current state *)

KronLibErrors == IF env.kronLib THEN {} ELSE {KronLibImportError}
VersionErrors == IF env.version THEN {} ELSE {VersionImportError}
FrameworkErrors == IF env.framework THEN {} ELSE {FrameworkImportError}

\* CallArgs with another execution order
CallArgsWrongOrder ==
    [name |-> KronName,
     algorithm |-> namespace["KronFluxAlgorithm"],
     control |-> namespace["KronFluxControl"],
     executionOrder |-> 2,
     shouldApCorr |-> ShouldApCorr]

\* CallArgs with the aperture-correction flag left at the host's default
CallArgsNoApCorr ==
    [name |-> KronName,
     algorithm |-> namespace["KronFluxAlgorithm"],
     control |-> namespace["KronFluxControl"],
     executionOrder |-> ExecutionOrderTenths,
     shouldApCorr |-> FALSE]

\* CallArgs with the algorithm class passed as Control too
CallArgsWrongControl ==
    [name |-> KronName,
     algorithm |-> namespace["KronFluxAlgorithm"],
     control |-> namespace["KronFluxAlgorithm"],
     executionOrder |-> ExecutionOrderTenths,
     shouldApCorr |-> ShouldApCorr]

\* the arguments of the call on lines 27-28
CallArgs ==
    [name |-> KronName,
     algorithm |-> namespace["KronFluxAlgorithm"],
     control |-> namespace["KronFluxControl"],
     executionOrder |-> ExecutionOrderTenths,
     shouldApCorr |-> ShouldApCorr]

\* the arguments are evaluated left to right, then the host is called
RegisterErrors ==
    IF namespace["KronFluxAlgorithm"] = Unbound THEN {AlgorithmNameError}
    ELSE IF namespace["KronFluxControl"] = Unbound THEN {ControlNameError}
    ELSE HostErrors(registry, CallArgs)

StepErrors(step) ==
    CASE step = "kronLib" -> KronLibErrors
      [] step = "version" -> VersionErrors
      [] step = "framework" -> FrameworkErrors
      [] step = "register" -> RegisterErrors
      [] OTHER -> {}

\* an exception leaves the module body: nothing catches it
Abort(step, err) ==
    /\ pc' = "failed"
    /\ raised' = err
    /\ trace' = Append(trace, step)

\* the statement completed: control passes to the next one
Advance(step, next) ==
    /\ pc' = next
    /\ raised' = raised
    /\ trace' = Append(trace, step)

----------------------------------------------------------------------------
(* Init *)

OtherEntries ==
    {[name |-> "base_PsfFlux", algorithm |-> "base.PsfFluxAlgorithm",
      control |-> "base.PsfFluxControl", executionOrder |-> 20,
      shouldApCorr |-> TRUE],
     [name |-> "base_SdssShape", algorithm |-> "base.SdssShapeAlgorithm",
      control |-> "base.SdssShapeControl", executionOrder |-> 10,
      shouldApCorr |-> FALSE],
     [name |-> KronName, algorithm |-> "other.KronAlgorithm",
      control |-> "other.KronControl", executionOrder |-> 30,
      shouldApCorr |-> FALSE]}

\* registries the host can hold before the import: names are unique
InitialRegistries ==
    UNION {{s \in [1..n -> OtherEntries] :
               \A i, j \in 1..n : i # j => s[i].name # s[j].name}
           : n \in 0..MaxOther}

Environments ==
    {e \in [kronLib : BOOLEAN,
            kronLibExports : SUBSET {"KronFluxAlgorithm", "KronFluxControl", "lsst"},
            version : BOOLEAN,
            versionExports : SUBSET {"__version__", "lsst"},
            framework : BOOLEAN,
            duplicatePolicy : {"noop", "raise"},
            controlMalformed : BOOLEAN] :
        /\ (~e.kronLib => e.kronLibExports = {})
        /\ (~e.version => e.versionExports = {})}

Init ==
    /\ pc = "idle"
    /\ namespace = EmptyNamespace
    /\ registry \in InitialRegistries
    /\ raised = NoError
    /\ loaded = FALSE
    /\ trace = <<>>
    /\ before = registry
    /\ nImports = 0
    /\ env \in Environments

----------------------------------------------------------------------------
(* The importer *)

\* `import lsst.meas.extensions.photometryKron` with the module not cached:
\* the body starts in a fresh namespace
Import ==
    /\ pc \in {"idle", "failed"}
    /\ ~loaded
    /\ nImports < MaxImports
    /\ nImports' = nImports + 1
    /\ pc' = "kronLib"
    /\ namespace' = EmptyNamespace
    /\ raised' = NoError
    /\ trace' = <<>>
    /\ before' = registry
    /\ UNCHANGED <<registry, loaded, env>>

\* the same statement with the module cached: the body is not run again
ImportCached ==
    /\ pc \in {"done", "failed"}
    /\ loaded
    /\ nImports < MaxImports
    /\ nImports' = nImports + 1
    /\ UNCHANGED <<pc, namespace, registry, raised, loaded, trace, before, env>>

\* reload(module): the body is run again in the namespace it left
Reload ==
    /\ pc \in {"done", "failed"}
    /\ loaded
    /\ nImports < MaxImports
    /\ nImports' = nImports + 1
    /\ pc' = "kronLib"
    /\ raised' = NoError
    /\ trace' = <<>>
    /\ before' = registry
    /\ UNCHANGED <<namespace, registry, loaded, env>>

----------------------------------------------------------------------------
(* The module body *)

\* line 23: from .kronLib import *
ImportKronLib ==
    /\ pc = "kronLib"
    /\ IF KronLibErrors # {}
       THEN /\ \E err \in KronLibErrors : Abort("kronLib", err)
            /\ UNCHANGED namespace
       ELSE /\ Advance("kronLib", "version")
            /\ namespace' = StarImport(namespace, "kronLib", env.kronLibExports)
    /\ UNCHANGED <<registry, loaded, before, nImports, env>>

\* ImportVersion with the ImportError caught and ignored
ImportVersionSwallow ==
    /\ pc = "version"
    /\ Advance("version", "framework")
    /\ namespace' = StarImport(namespace, "version", env.versionExports)
    /\ UNCHANGED <<registry, loaded, before, nImports, env>>

\* line 24: from .version import *
ImportVersion ==
    /\ pc = "version"
    /\ IF VersionErrors # {}
       THEN /\ \E err \in VersionErrors : Abort("version", err)
            /\ UNCHANGED namespace
       ELSE /\ Advance("version", "framework")
            /\ namespace' = StarImport(namespace, "version", env.versionExports)
    /\ UNCHANGED <<registry, loaded, before, nImports, env>>

\* ImportFramework with the ImportError caught and ignored
ImportFrameworkSwallow ==
    /\ pc = "framework"
    /\ Advance("framework", "register")
    /\ namespace' = IF env.framework
                     THEN [namespace EXCEPT !["lsst"] = FrameworkPkg]
                     ELSE namespace
    /\ UNCHANGED <<registry, loaded, before, nImports, env>>

\* ImportFramework followed directly by the cleanup: the registration and the
\* del statement change places
ImportFrameworkThenCleanup ==
    /\ pc = "framework"
    /\ IF FrameworkErrors # {}
       THEN /\ \E err \in FrameworkErrors : Abort("framework", err)
            /\ UNCHANGED namespace
       ELSE /\ Advance("framework", "cleanup")
            /\ namespace' = [namespace EXCEPT !["lsst"] = FrameworkPkg]
    /\ UNCHANGED <<registry, loaded, before, nImports, env>>

\* line 26: import lsst.meas.base
ImportFramework ==
    /\ pc = "framework"
    /\ IF FrameworkErrors # {}
       THEN /\ \E err \in FrameworkErrors : Abort("framework", err)
            /\ UNCHANGED namespace
       ELSE /\ Advance("framework", "register")
            /\ namespace' = [namespace EXCEPT !["lsst"] = FrameworkPkg]
    /\ UNCHANGED <<registry, loaded, before, nImports, env>>

\* Register with the call left out
RegisterSkipped ==
    /\ pc = "register"
    /\ Advance("register", "cleanup")
    /\ UNCHANGED <<registry, namespace, loaded, before, nImports, env>>

\* Register writing the entry into the registry itself, not through the host
RegisterForce ==
    /\ pc = "register"
    /\ Advance("register", "cleanup")
    /\ registry' = Append(registry, CallArgs)
    /\ UNCHANGED <<namespace, loaded, before, nImports, env>>

\* Register removing whatever holds the name before registering
RegisterReplace ==
    /\ pc = "register"
    /\ Advance("register", "cleanup")
    /\ registry' = Append(SelectSeq(registry, IsOther), CallArgs)
    /\ UNCHANGED <<namespace, loaded, before, nImports, env>>

\* lines 27-28: lsst.meas.base.wrapSimpleAlgorithm(KronFluxAlgorithm, ...)
Register ==
    /\ pc = "register"
    /\ IF RegisterErrors # {}
       THEN /\ \E err \in RegisterErrors : Abort("register", err)
            /\ UNCHANGED registry
       ELSE /\ Advance("register", "cleanup")
            /\ registry' = HostRegister(registry, CallArgs)
    /\ UNCHANGED <<namespace, loaded, before, nImports, env>>

\* Cleanup without the del statement
CleanupKeep ==
    /\ pc = "cleanup"
    /\ Advance("cleanup", "done")
    /\ loaded' = TRUE
    /\ UNCHANGED <<namespace, registry, before, nImports, env>>

\* line 29: del lsst, the last statement: the import has succeeded
Cleanup ==
    /\ pc = "cleanup"
    /\ Advance("cleanup", "done")
    /\ namespace' = [namespace EXCEPT !["lsst"] = Unbound]
    /\ loaded' = TRUE
    /\ UNCHANGED <<registry, before, nImports, env>>

Next ==
    \/ Import
    \/ ImportCached
    \/ Reload
    \/ ImportKronLib
    \/ ImportVersion
    \/ ImportFramework
    \/ Register
    \/ Cleanup

Spec == Init /\ [][Next]_vars

----------------------------------------------------------------------------
(* Properties *)

\* entries the current execution of the body has added to the registry
Created == Range(registry) \ Range(before)
IsPrefix(s, t) == Len(s) <= Len(t) /\ \A i \in DOMAIN s : s[i] = t[i]
StepIndex(step) == CHOOSE i \in DOMAIN BodyOrder : BodyOrder[i] = step

\* C1: after a successful import that started from a registry with no entry
\* named ext_photometryKron_KronFlux, the registry holds exactly one entry of
\* that name.
C1_ExactlyOneEntry ==
    (pc = "done" /\ ~HasName(before, KronName))
        => NameCount(registry, KronName) = 1

C1_Witness ==
    /\ pc = "done"
    /\ ~HasName(before, KronName)
    /\ Len(before) > 0
    /\ HasName(registry, KronName)

\* C2: the entry the import creates under ext_photometryKron_KronFlux has
\* executionOrder 2.0 (20 tenths).
C2_ExecutionOrder ==
    \A e \in Created : IsKron(e) => e.executionOrder = 20

C2_Witness ==
    /\ pc = "done"
    /\ \E e \in Created : IsKron(e) /\ e.executionOrder = 20

\* C3: the entry the import creates under ext_photometryKron_KronFlux has
\* shouldApCorr true.
C3_ShouldApCorr ==
    \A e \in Created : IsKron(e) => e.shouldApCorr = TRUE

C3_Witness ==
    /\ pc = "cleanup"
    /\ \E e \in Created : IsKron(e) /\ e.shouldApCorr

\* C4: the entry the import creates binds kronLib's KronFluxAlgorithm to
\* kronLib's KronFluxControl and to no other control type.
C4_BoundTypes ==
    \A e \in Created : IsKron(e) =>
        /\ e.algorithm = "kronLib.KronFluxAlgorithm"
        /\ e.control = "kronLib.KronFluxControl"

C4_Witness ==
    /\ pc = "done"
    /\ "__version__" \in env.versionExports
    /\ \E e \in Created :
          /\ IsKron(e)
          /\ e.algorithm = "kronLib.KronFluxAlgorithm"
          /\ e.control = "kronLib.KronFluxControl"

\* C5: once the module has been imported successfully, importing it again
\* (or reloading it) leaves the registry as it is, with one entry of the
\* module's name, and if the body fails it fails with the host's
\* duplicate-registration error.
C5_Reimport ==
    [][loaded =>
        /\ registry' = registry
        /\ NameCount(registry', KronName) = 1
        /\ (pc' = "failed" => raised' = DuplicateError)]_vars

C5_Witness ==
    /\ loaded
    /\ nImports >= 2
    /\ pc = "failed"
    /\ raised = DuplicateError
    /\ NameCount(registry, KronName) = 1
    /\ registry = before

\* C6: after a successful import the name lsst is not bound in the module's
\* namespace, whether or not a star-import had bound it.
C6_NoFrameworkLeak ==
    pc = "done" => namespace["lsst"] = Unbound

C6_Witness ==
    /\ pc = "done"
    /\ "lsst" \in env.kronLibExports
    /\ namespace["lsst"] = Unbound
    /\ namespace["KronFluxControl"] # Unbound

\* C7: a statement of the body that fails ends the execution of the body with
\* the error it raised: no later statement runs, nothing is changed after the
\* failure, and the failed body stays failed until a new execution starts.
C7_FailurePropagates ==
    [][/\ (pc \in BodySteps /\ StepErrors(pc) # {}) =>
            /\ pc' = "failed"
            /\ raised' \in StepErrors(pc)
            /\ trace' = Append(trace, pc)
            /\ UNCHANGED <<namespace, registry, loaded>>
       /\ (pc = "failed" /\ pc' # "kronLib") =>
            UNCHANGED <<pc, raised, trace, namespace, registry, loaded>>]_vars

C7_Witness ==
    /\ pc = "failed"
    /\ raised = DuplicateError
    /\ trace = <<"kronLib", "version", "framework", "register">>
    /\ namespace["lsst"] = FrameworkPkg

\* C8: the statements of the body run in source order, each at most once per
\* execution; a completed execution has run all five, the registration once,
\* and the name lsst stays bound to the framework until the registration
\* call has returned.
C8_FixedOrder ==
    /\ IsPrefix(trace, BodyOrder)
    /\ (pc \in BodySteps => Len(trace) + 1 = StepIndex(pc))
    /\ (pc = "done" => trace = BodyOrder)
    /\ (pc \in {"register", "cleanup"} => namespace["lsst"] = FrameworkPkg)
    /\ Cardinality({i \in DOMAIN trace : trace[i] = "register"}) <= 1

C8_Witness ==
    /\ pc = "done"
    /\ trace = BodyOrder
    /\ nImports = 1

\* C9: no step changes a registry entry held under another name, and once an
\* entry named ext_photometryKron_KronFlux exists no step changes or removes
\* it.
C9_Frame ==
    [][/\ SelectSeq(registry', IsOther) = SelectSeq(registry, IsOther)
       /\ (HasName(registry, KronName) =>
              SelectSeq(registry', IsKron) = SelectSeq(registry, IsKron))]_vars

C9_Witness ==
    /\ pc = "done"
    /\ registry # before
    /\ Len(SelectSeq(registry, IsOther)) > 1

\* C10: when kronLib, version or the host framework cannot be resolved, the
\* registry stays as it was before the import attempt.
C10_ImportFailureKeepsRegistry ==
    (~env.kronLib \/ ~env.version \/ ~env.framework) => registry = before

C10_Witness ==
    /\ pc = "failed"
    /\ raised = FrameworkImportError
    /\ "lsst" \in env.kronLibExports
    /\ namespace["KronFluxAlgorithm"] # Unbound
    /\ namespace["KronFluxControl"] # Unbound
    /\ Len(registry) > 0

====
